---- MODULE Spec2Model ----
(***************************************************************************)
(* Model of `dotin import` (src/commands/import.rs): a batch move of files *)
(* from the home directory into a group folder of the dotfiles root.       *)
(* The filesystem is a function from the canonical paths that exist to     *)
(* their entry (directory, regular file, symbolic link); the import runs   *)
(* phase by phase, one action per phase or per loop iteration.             *)
(***************************************************************************)
EXTENDS Integers, Sequences, FiniteSets, TLC

\* Longest file list handed to import.
MaxFiles == 2

VARIABLES
    fs,              \* the filesystem: canonical path -> entry
    fs0,             \* the filesystem when import was called
    mount_point,     \* the directory another filesystem is mounted on, or NoPath
    files,           \* argument `files`
    absolute_paths,  \* canonicalized `files`
    files_to_move,   \* the planned moves, FileToMove records
    intermediate_directories_to_create,
    pc,              \* position inside import
    checked,         \* the validations that have passed for the whole batch
    idx,             \* index of the running loop
    result,          \* "running", "ok", "error" (Err returned) or "panic"
    printed,         \* the messages printed so far
    log,             \* filesystem mutations performed so far, in order
    earlier          \* the outcome of an earlier call with the list reordered

vars == <<fs, fs0, mount_point, files, absolute_paths, files_to_move,
          intermediate_directories_to_create, pc, checked, idx, result, printed,
          log, earlier>>

----------------------------------------------------------------------------
\* Paths are sequences of components, <<>> is the root directory.

home_dir == <<"h">>
group_dir == <<"h", "d", "g">>

Parent(p) == SubSeq(p, 1, Len(p) - 1)

dotfiles_folder == Parent(group_dir)

NoPath == <<"?">>

starts_with(p, base) ==
    Len(base) <= Len(p) /\ SubSeq(p, 1, Len(base)) = base

strip_prefix(p, base) == SubSeq(p, Len(base) + 1, Len(p))

join(base, rel) == base \o rel

Dir == [kind |-> "dir", data |-> <<>>]
File(c) == [kind |-> "file", data |-> c]
Link(t) == [kind |-> "link", data |-> t]

----------------------------------------------------------------------------
\* Path resolution.

Fuel(f) == Cardinality(DOMAIN f)

RECURSIVE Walk(_, _, _, _, _)
\* The location `rest` names below the canonical directory `at`: symbolic
\* links in the middle of the path are followed, one in the last component
\* only when `follow`.  The last component may be missing (the result is
\* then not in DOMAIN f); NoPath when the walk cannot be made.
Walk(f, at, rest, follow, fuel) ==
    IF rest = <<>> THEN at
    ELSE IF at \notin DOMAIN f \/ f[at].kind # "dir" THEN NoPath
    ELSE LET q == Append(at, Head(rest)) IN
         IF q \notin DOMAIN f
         THEN (IF Len(rest) = 1 THEN q ELSE NoPath)
         ELSE IF f[q].kind = "link" /\ (Len(rest) > 1 \/ follow)
         THEN (IF fuel = 0 THEN NoPath
               ELSE Walk(f, <<>>, f[q].data \o Tail(rest), follow, fuel - 1))
         ELSE Walk(f, q, Tail(rest), follow, fuel)

\* fs::canonicalize: the canonical path of an existing entry, or NoPath.
canonicalize(f, p) ==
    LET r == Walk(f, <<>>, p, TRUE, Fuel(f)) IN
    IF r \in DOMAIN f THEN r ELSE NoPath

\* Path::exists follows symbolic links.
exists(f, p) == canonicalize(f, p) # NoPath

is_dir(f, p) == exists(f, p) /\ f[canonicalize(f, p)].kind = "dir"

\* Where the entry named p itself lives (lstat, rename, mkdir).
Locate(f, p) == Walk(f, <<>>, p, FALSE, Fuel(f))

symlink_read_at_is_symlink(f, p) ==
    LET r == Locate(f, p) IN r \in DOMAIN f /\ f[r].kind = "link"

\* The filesystem (device) a canonical path is on.
Dev(p) ==
    IF mount_point # NoPath /\ starts_with(p, mount_point) THEN "disk1"
    ELSE "disk0"

----------------------------------------------------------------------------
\* Filesystem mutations.  Each returns a record: ok, the filesystem after
\* the call, and what the call did.

RECURSIVE create_dir_all(_, _)
\* std::fs::create_dir_all: mkdir, on NotFound create the parent first and
\* mkdir again; an mkdir error is forgiven when the path is a directory.
create_dir_all(f, p) ==
    LET loc == Locate(f, p)
        Made(g, l, before) == [ok |-> TRUE, fs |-> (l :> Dir) @@ g,
                               made |-> before \cup {l}]
        Kept(g, before) == [ok |-> TRUE, fs |-> g, made |-> before]
        Failed(g, before) == [ok |-> FALSE, fs |-> g, made |-> before]
    IN  IF p = <<>> THEN Kept(f, {})
        ELSE IF loc # NoPath /\ loc \notin DOMAIN f THEN Made(f, loc, {})
        ELSE IF loc # NoPath THEN
            (IF is_dir(f, p) THEN Kept(f, {}) ELSE Failed(f, {}))
        ELSE LET r == create_dir_all(f, Parent(p))
                 loc2 == Locate(r.fs, p)
             IN  IF ~r.ok THEN r
                 ELSE IF loc2 # NoPath /\ loc2 \notin DOMAIN r.fs
                 THEN Made(r.fs, loc2, r.made)
                 ELSE IF is_dir(r.fs, p) THEN Kept(r.fs, r.made)
                 ELSE Failed(r.fs, r.made)

\* utils::create_folder_at: idempotent, creates the missing ancestors.
create_folder_at(f, p) == create_dir_all(f, p)

\* The entries at or below s.
Subtree(f, s) == {p \in DOMAIN f : starts_with(p, s)}

\* std::fs::rename (rename(2)): the entry named src itself moves (a symbolic
\* link is not followed); an existing destination is replaced when it is a
\* non-directory and the source is one, or an empty directory and the source
\* is a directory.
rename(f, src, dst) ==
    LET s == Locate(f, src)
        t == Locate(f, dst)
        Failed == [ok |-> FALSE, fs |-> f, from |-> s, to |-> t,
                   replaced |-> FALSE, mount |-> mount_point]
        dom == ((DOMAIN f) \ (Subtree(f, s) \cup {t}))
                   \cup {join(t, strip_prefix(p, s)) : p \in Subtree(f, s)}
        after == [p \in dom |->
                     IF starts_with(p, t) THEN f[join(s, strip_prefix(p, t))]
                     ELSE f[p]]
    IN  IF s = NoPath \/ s \notin DOMAIN f \/ s = <<>> THEN Failed
        ELSE IF t = NoPath \/ t = <<>> THEN Failed
        ELSE IF Dev(s) # Dev(Parent(t)) THEN Failed
        ELSE IF s = t THEN
            [ok |-> TRUE, fs |-> f, from |-> s, to |-> t, replaced |-> FALSE,
             mount |-> mount_point]
        ELSE IF starts_with(t, s) THEN Failed
        ELSE IF t \in DOMAIN f /\ f[s].kind = "dir"
                /\ (f[t].kind # "dir" \/ Subtree(f, t) # {t}) THEN Failed
        ELSE IF t \in DOMAIN f /\ f[s].kind # "dir" /\ f[t].kind = "dir"
        THEN Failed
        ELSE [ok |-> TRUE, fs |-> after, from |-> s, to |-> t,
              replaced |-> t \in DOMAIN f,
              mount |-> IF mount_point # NoPath /\ starts_with(mount_point, s)
                        THEN join(t, strip_prefix(mount_point, s))
                        ELSE mount_point]

\* utils::are_in_the_same_filesystem: compares the devices of the two paths'
\* metadata; an I/O error when either cannot be read.
are_in_the_same_filesystem(f, a, b) ==
    LET ca == canonicalize(f, a)
        cb == canonicalize(f, b)
    IN  IF ca = NoPath \/ cb = NoPath THEN "io_error"
        ELSE IF Dev(ca) = Dev(cb) THEN "same" ELSE "different"

----------------------------------------------------------------------------
\* Lists of directories.

NameRank == [a |-> 1, b |-> 2, c |-> 3, d |-> 4, e |-> 5, f |-> 6, g |-> 7,
             h |-> 8, k |-> 9, l |-> 10, o |-> 11, x |-> 12, z |-> 13]

RECURSIVE PathLess(_, _)
\* Path's Ord: component by component, a prefix sorts first.
PathLess(p, q) ==
    IF q = <<>> THEN FALSE
    ELSE IF p = <<>> THEN TRUE
    ELSE IF Head(p) # Head(q) THEN NameRank[Head(p)] < NameRank[Head(q)]
    ELSE PathLess(Tail(p), Tail(q))

RECURSIVE Insert(_, _)
Insert(sorted, p) ==
    IF sorted = <<>> THEN <<p>>
    ELSE IF PathLess(p, Head(sorted)) THEN <<p>> \o sorted
    ELSE <<Head(sorted)>> \o Insert(Tail(sorted), p)

RECURSIVE sort(_)
sort(s) == IF s = <<>> THEN <<>> ELSE Insert(sort(Tail(s)), Head(s))

\* utils::dedup_nested: drops every directory that lies inside another
\* directory of the list (and the repetitions of one directory).
dedup_nested(s) ==
    LET Drop(n) == \/ \E m \in 1..Len(s) : s[m] # s[n] /\ starts_with(s[n], s[m])
                   \/ \E m \in 1..(n - 1) : s[m] = s[n]
        RECURSIVE Keep(_)
        Keep(n) == IF n > Len(s) THEN <<>>
                   ELSE IF Drop(n) THEN Keep(n + 1)
                   ELSE <<s[n]>> \o Keep(n + 1)
    IN  Keep(1)

----------------------------------------------------------------------------
\* The filesystems import is called on, and the lists it is called with.

BaseFs ==
    (<<>> :> Dir) @@ (<<"h">> :> Dir) @@ (<<"h", "d">> :> Dir)
    @@ (<<"h", "d", "x">> :> File(<<"h", "d", "x">>))
    @@ (<<"o">> :> Dir) @@ (<<"o", "f">> :> File(<<"o", "f">>))

NoEntries == [p \in {} |-> Dir]

\* What a directory holds under the name "b": nothing, a file, a link into
\* the dotfiles folder, a directory (empty or holding the file "c").
HomeB ==
    { NoEntries,
      <<"h", "a", "b">> :> File(<<"h", "a", "b">>),
      <<"h", "a", "b">> :> Link(<<"h", "d", "x">>),
      <<"h", "a", "b">> :> Dir,
      (<<"h", "a", "b">> :> Dir)
          @@ (<<"h", "a", "b", "c">> :> File(<<"h", "a", "b", "c">>)) }

HomeE == { NoEntries, <<"h", "a", "e">> :> File(<<"h", "a", "e">>) }

\* What <<"h", "a">> is: missing, a file, or a directory.
HomeA ==
    { NoEntries, <<"h", "a">> :> File(<<"h", "a">>) }
    \cup { (<<"h", "a">> :> Dir) @@ hb @@ he : hb \in HomeB, he \in HomeE }

\* What <<"h", "l">> is: missing, or a link to <<"h", "a">>, into the
\* dotfiles folder, or out of the home directory.
HomeL ==
    { NoEntries,
      <<"h", "l">> :> Link(<<"h", "a">>),
      <<"h", "l">> :> Link(<<"h", "d", "x">>),
      <<"h", "l">> :> Link(<<"o", "f">>) }

\* What the group folder holds under the name "a".
GroupA ==
    { NoEntries,
      <<"h", "d", "g", "a">> :> File(<<"h", "d", "g", "a">>),
      <<"h", "d", "g", "a">> :> Link(<<"h", "z">>),
      <<"h", "d", "g", "a">> :> Link(<<"o">>),
      <<"h", "d", "g", "a">> :> Dir,
      (<<"h", "d", "g", "a">> :> Dir)
          @@ (<<"h", "d", "g", "a", "b">> :> File(<<"h", "d", "g", "a", "b">>)),
      (<<"h", "d", "g", "a">> :> Dir)
          @@ (<<"h", "d", "g", "a", "b">> :> Dir),
      (<<"h", "d", "g", "a">> :> Dir)
          @@ (<<"h", "d", "g", "a", "z">> :> File(<<"h", "d", "g", "a", "z">>)) }

\* The group folder: missing, occupied by a file, or a directory.
GroupG ==
    { NoEntries, group_dir :> File(group_dir) }
    \cup { (group_dir :> Dir) @@ ga : ga \in GroupA }

\* A home directory with a second directory, <<"h", "k">>, next to
\* <<"h", "a">>.
HomeK ==
    { (<<"h", "a">> :> Dir) @@ (<<"h", "a", "e">> :> File(<<"h", "a", "e">>))
          @@ hb @@ (<<"h", "k">> :> Dir)
          @@ (<<"h", "k", "c">> :> File(<<"h", "k", "c">>)) :
      hb \in { NoEntries,
               (<<"h", "a", "b">> :> Dir)
                   @@ (<<"h", "a", "b", "c">> :> File(<<"h", "a", "b", "c">>)) } }

\* The group folder of such a home: missing, or a directory that holds
\* nothing, a file or a dangling link under the name "k".
GroupK ==
    { NoEntries,
      group_dir :> Dir,
      (group_dir :> Dir)
          @@ (<<"h", "d", "g", "k">> :> File(<<"h", "d", "g", "k">>)),
      (group_dir :> Dir) @@ (<<"h", "d", "g", "k">> :> Link(<<"h", "z">>)) }

InitialFilesystems ==
    { ha @@ hl @@ gg @@ BaseFs : ha \in HomeA, hl \in HomeL, gg \in GroupG }
    \cup { hk @@ gk @@ BaseFs : hk \in HomeK, gk \in GroupK }

Listable ==
    { <<"h", "a">>, <<"h", "a", "b">>, <<"h", "a", "b", "c">>,
      <<"h", "a", "e">>, <<"h", "l">>, <<"h", "l", "b">>,
      <<"h", "k", "c">>, <<"h", "d", "x">>, <<"h", "d", "g", "a">>,
      <<"o", "f">> }

\* Where another filesystem may be mounted.
MountPoints == { <<"h", "a", "b">> }

FileLists == UNION { [1..n -> Listable] : n \in 1..MaxFiles }

Init ==
    /\ fs \in InitialFilesystems
    /\ fs0 = fs
    /\ mount_point \in {NoPath} \cup {m \in MountPoints :
                                        m \in DOMAIN fs /\ fs[m].kind = "dir"}
    /\ files \in FileLists
    /\ absolute_paths = <<>>
    /\ files_to_move = <<>>
    /\ intermediate_directories_to_create = <<>>
    /\ pc = "canonicalize"
    /\ checked = {}
    /\ idx = 1
    /\ result = "running"
    /\ printed = <<>>
    /\ log = <<>>
    /\ earlier = [called |-> FALSE, mount_point |-> mount_point,
                  files |-> files, result |-> "running", fs |-> fs]

----------------------------------------------------------------------------
\* import, phase by phase.

Phases == <<"canonicalize", "classify", "create_group", "collision",
            "discover", "create_directories", "same_filesystem", "rename",
            "done">>

\* The statements of import with the move loop ahead of the
\* same-filesystem loop.
NextPhaseMoveFirst(phase) ==
    CASE phase = "create_directories" -> "rename"
      [] phase = "rename" -> "same_filesystem"
      [] phase = "same_filesystem" -> "done"
      [] OTHER -> LET n == CHOOSE k \in 1..Len(Phases) : Phases[k] = phase
                  IN  Phases[n + 1]

\* The order of the statements of import.
NextPhase(phase) ==
    LET n == CHOOSE k \in 1..Len(Phases) : Phases[k] = phase IN Phases[n + 1]

\* Falling through to the next statement; Ok(()) after the last one.
Goto(phase) ==
    IF phase = "done" THEN pc' = "done" /\ result' = "ok"
    ELSE pc' = phase /\ UNCHANGED result

\* Leaving import early: `?`, bail! ("error") or panic! ("panic").
Finish(r) == pc' = "done" /\ result' = r

\* A mutation of the filesystem: the n-th directory created (n = 0 for the
\* group folder) with the directories made, or the n-th rename with its
\* arguments, the places it moved from and to and whether it replaced an
\* entry.
Event(op, n, path, to_path, from, to, replaced, made) ==
    [op |-> op, n |-> n, path |-> path, to_path |-> to_path, from |-> from,
     to |-> to, replaced |-> replaced, made |-> made]

\* Lines 28-31 with the paths that do not resolve let through.
UnresolvedPathsIgnored == {n \in 1..Len(files) : FALSE}

\* Lines 28-31: the listed paths fs::canonicalize fails on.
UnresolvedPaths ==
    {n \in 1..Len(files) : canonicalize(fs, files[n]) = NoPath}

\* Lines 28-31: canonicalize every listed path, or return the I/O error.
Canonicalize ==
    /\ pc = "canonicalize"
    /\ IF UnresolvedPaths # {}
       THEN /\ Finish("error")
            /\ UNCHANGED <<absolute_paths, checked>>
       ELSE /\ absolute_paths' =
                   [n \in 1..Len(files) |-> canonicalize(fs, files[n])]
            /\ checked' = checked \cup {"resolution"}
            /\ Goto(NextPhase("canonicalize"))
    /\ idx' = 1
    /\ UNCHANGED <<fs, fs0, mount_point, files, files_to_move,
                   intermediate_directories_to_create, printed, log>>
    /\ UNCHANGED earlier

\* Lines 41-69 without the bail! of line 65: a file outside the home
\* directory is passed over.
DispositionNoBail(absolute_path) ==
    IF starts_with(absolute_path, dotfiles_folder) THEN "skip"
    ELSE IF starts_with(absolute_path, home_dir) THEN "move"
    ELSE "skip"

\* Lines 41-69 with the home directory test first.
DispositionHomeFirst(absolute_path) ==
    IF starts_with(absolute_path, home_dir) THEN "move"
    ELSE IF starts_with(absolute_path, dotfiles_folder) THEN "skip"
    ELSE "bail"

\* Lines 41-69: what becomes of a listed file.
Disposition(absolute_path) ==
    IF starts_with(absolute_path, dotfiles_folder) THEN "skip"
    ELSE IF starts_with(absolute_path, home_dir) THEN "move"
    ELSE "bail"

\* Lines 59-60: where a file of the home directory goes.
Destination(absolute_path) ==
    join(group_dir, strip_prefix(absolute_path, home_dir))

\* Lines 36-73: one iteration of the classification loop, or its end.
Classify ==
    /\ pc = "classify"
    /\ IF idx > Len(files)
       THEN /\ checked' = checked \cup {"classification"}
            /\ idx' = 1
            /\ Goto(NextPhase("classify"))
            /\ UNCHANGED <<files_to_move, printed>>
       ELSE LET path == files[idx]
                absolute_path == absolute_paths[idx]
                is_file_symlink == symlink_read_at_is_symlink(fs, path)
                warned == IF is_file_symlink
                          THEN Append(printed, <<"symlink_warning", path>>)
                          ELSE printed
            IN  CASE Disposition(absolute_path) = "skip" ->
                       /\ printed' = Append(printed,
                              IF is_file_symlink THEN <<"skip_symlink", path>>
                              ELSE <<"skip_inside", path>>)
                       /\ idx' = idx + 1
                       /\ UNCHANGED <<files_to_move, pc, result, checked>>
                  [] Disposition(absolute_path) = "move" ->
                       /\ printed' = warned
                       /\ files_to_move' = Append(files_to_move,
                              [path |-> path,
                               to_path |-> Destination(absolute_path)])
                       /\ idx' = idx + 1
                       /\ UNCHANGED <<pc, result, checked>>
                  [] OTHER ->
                       /\ printed' = warned
                       /\ Finish("error")
                       /\ UNCHANGED <<files_to_move, idx, checked>>
    /\ UNCHANGED <<fs, fs0, mount_point, files, absolute_paths,
                   intermediate_directories_to_create, log>>
    /\ UNCHANGED earlier

\* Lines 75-79 with an early return on an empty plan.
CreateGroupFolderUnlessEmpty ==
    /\ pc = "create_group"
    /\ IF files_to_move = <<>>
       THEN /\ printed' = Append(printed, <<"no_files">>)
            /\ Goto("done")
            /\ UNCHANGED <<fs, log>>
       ELSE LET r == create_folder_at(fs, group_dir) IN
            /\ printed' = printed
            /\ fs' = r.fs
            /\ log' = IF r.made = {} THEN log
                      ELSE Append(log, Event("mkdir", 0, NoPath, group_dir,
                                             NoPath, NoPath, FALSE, r.made))
            /\ IF r.ok THEN Goto(NextPhase("create_group"))
               ELSE Finish("error")
    /\ UNCHANGED <<fs0, mount_point, files, absolute_paths, files_to_move,
                   intermediate_directories_to_create, checked, idx>>
    /\ UNCHANGED earlier

\* Lines 75-79: report an empty plan, create the group folder.
CreateGroupFolder ==
    /\ pc = "create_group"
    /\ LET r == create_folder_at(fs, group_dir) IN
        /\ printed' = IF files_to_move = <<>>
                      THEN Append(printed, <<"no_files">>) ELSE printed
        /\ fs' = r.fs
        /\ log' = IF r.made = {} THEN log
                  ELSE Append(log, Event("mkdir", 0, NoPath, group_dir, NoPath,
                                         NoPath, FALSE, r.made))
        /\ IF r.ok THEN Goto(NextPhase("create_group")) ELSE Finish("error")
    /\ UNCHANGED <<fs0, mount_point, files, absolute_paths, files_to_move,
                   intermediate_directories_to_create, checked, idx>>
    /\ UNCHANGED earlier

\* Line 84: the planned moves whose destination exists.
CollidingMoves ==
    {n \in 1..Len(files_to_move) : exists(fs, files_to_move[n].to_path)}

\* Lines 81-87: panic when a destination exists.
CollisionCheck ==
    /\ pc = "collision"
    /\ IF CollidingMoves # {}
       THEN Finish("panic") /\ UNCHANGED checked
       ELSE /\ checked' = checked \cup {"collision"}
            /\ Goto(NextPhase("collision"))
    /\ UNCHANGED <<fs, fs0, mount_point, files, absolute_paths, files_to_move,
                   intermediate_directories_to_create, idx, printed, log>>
    /\ UNCHANGED earlier

\* Lines 93-98 with the test of the parent left out.
ObstructedMovesUnseen == {n \in 1..Len(files_to_move) : FALSE}

\* Lines 93-98: the planned moves whose destination's parent exists and is
\* not a directory.
ObstructedMoves ==
    {n \in 1..Len(files_to_move) :
        LET parent_directory == Parent(files_to_move[n].to_path) IN
        exists(fs, parent_directory) /\ ~is_dir(fs, parent_directory)}

\* Lines 92-102 run over every listed file of the home directory, the
\* skipped ones included.
MissingParentsOfListed ==
    LET RECURSIVE Collect(_)
        Collect(n) ==
            IF n > Len(absolute_paths) THEN <<>>
            ELSE LET parent_directory ==
                         Parent(Destination(absolute_paths[n])) IN
                 IF /\ starts_with(absolute_paths[n], home_dir)
                    /\ absolute_paths[n] # home_dir
                    /\ ~exists(fs, parent_directory)
                    /\ parent_directory # group_dir
                 THEN <<parent_directory>> \o Collect(n + 1)
                 ELSE Collect(n + 1)
    IN  Collect(1)

\* Lines 92-102: the directories the loop pushes.
MissingParents ==
    LET RECURSIVE Collect(_)
        Collect(n) ==
            IF n > Len(files_to_move) THEN <<>>
            ELSE LET parent_directory == Parent(files_to_move[n].to_path) IN
                 IF ~exists(fs, parent_directory) /\ parent_directory # group_dir
                 THEN <<parent_directory>> \o Collect(n + 1)
                 ELSE Collect(n + 1)
    IN  Collect(1)

\* Lines 89-111: panic when a destination's parent is not a directory,
\* else collect, deduplicate and sort the directories to create.
Discover ==
    /\ pc = "discover"
    /\ IF ObstructedMoves # {}
       THEN /\ Finish("panic")
            /\ UNCHANGED <<intermediate_directories_to_create, printed,
                           checked>>
       ELSE /\ checked' = checked \cup {"obstructed"}
            /\ intermediate_directories_to_create' =
                   sort(dedup_nested(MissingParents))
            /\ printed' = IF MissingParents = <<>> THEN printed
                          ELSE Append(printed,
                                   <<"will_create",
                                     Len(dedup_nested(MissingParents))>>)
            /\ Goto(NextPhase("discover"))
    /\ idx' = 1
    /\ UNCHANGED <<fs, fs0, mount_point, files, absolute_paths, files_to_move,
                   log>>
    /\ UNCHANGED earlier

\* Lines 113-119 with the result of create_dir_all dropped instead of
\* returned.
CreateDirectoryIgnoringErrors ==
    /\ pc = "create_directories"
    /\ IF idx > Len(intermediate_directories_to_create)
       THEN /\ printed' = IF intermediate_directories_to_create = <<>>
                          THEN printed ELSE Append(printed, <<"created">>)
            /\ idx' = 1
            /\ Goto(NextPhase("create_directories"))
            /\ UNCHANGED <<fs, log>>
       ELSE LET dir == intermediate_directories_to_create[idx]
                r == create_dir_all(fs, dir)
            IN  /\ fs' = r.fs
                /\ log' = IF r.made = {} THEN log
                          ELSE Append(log, Event("mkdir", idx, NoPath, dir,
                                                 NoPath, NoPath, FALSE,
                                                 r.made))
                /\ idx' = idx + 1
                /\ UNCHANGED <<printed, pc, result>>
    /\ UNCHANGED <<fs0, mount_point, files, absolute_paths, files_to_move,
                   intermediate_directories_to_create, checked>>
    /\ UNCHANGED earlier

\* Lines 113-119: create one intermediate directory, or leave the loop.
CreateDirectory ==
    /\ pc = "create_directories"
    /\ IF idx > Len(intermediate_directories_to_create)
       THEN /\ printed' = IF intermediate_directories_to_create = <<>>
                          THEN printed ELSE Append(printed, <<"created">>)
            /\ idx' = 1
            /\ Goto(NextPhase("create_directories"))
            /\ UNCHANGED <<fs, log>>
       ELSE LET dir == intermediate_directories_to_create[idx]
                r == create_dir_all(fs, dir)
            IN  /\ fs' = r.fs
                /\ log' = IF r.made = {} THEN log
                          ELSE Append(log, Event("mkdir", idx, NoPath, dir,
                                                 NoPath, NoPath, FALSE,
                                                 r.made))
                /\ UNCHANGED printed
                /\ IF r.ok
                   THEN idx' = idx + 1 /\ UNCHANGED <<pc, result>>
                   ELSE Finish("error") /\ UNCHANGED idx
    /\ UNCHANGED <<fs0, mount_point, files, absolute_paths, files_to_move,
                   intermediate_directories_to_create, checked>>
    /\ UNCHANGED earlier

\* Lines 122-126 looking at the first planned move only.
CrossFilesystemMovesFirstOnly ==
    {n \in 1..Len(files_to_move) :
        /\ n = 1
        /\ are_in_the_same_filesystem(fs, files_to_move[n].path,
               Parent(files_to_move[n].to_path)) # "same"}

\* Lines 122-126: the planned moves whose source is not known to be on the
\* filesystem of the destination's parent.
CrossFilesystemMoves ==
    {n \in 1..Len(files_to_move) :
        are_in_the_same_filesystem(fs, files_to_move[n].path,
            Parent(files_to_move[n].to_path)) # "same"}

\* Lines 122-137: every source must be on the filesystem of its
\* destination's parent.
SameFilesystemCheck ==
    /\ pc = "same_filesystem"
    /\ IF CrossFilesystemMoves # {}
       THEN Finish("error") /\ UNCHANGED <<printed, checked>>
       ELSE /\ printed' = Append(printed, <<"will_move", Len(files_to_move)>>)
            /\ checked' = checked \cup {"same_filesystem"}
            /\ Goto(NextPhase("same_filesystem"))
    /\ idx' = 1
    /\ UNCHANGED <<fs, fs0, mount_point, files, absolute_paths, files_to_move,
                   intermediate_directories_to_create, log>>
    /\ UNCHANGED earlier

\* Line 140 walking the planned moves backwards.
NextMoveReversed(k) == files_to_move[Len(files_to_move) + 1 - k]

\* Line 140: the planned move the k-th iteration of the move loop takes.
NextMove(k) == files_to_move[k]

\* Lines 140-146: one iteration of the move loop, or its end.
Rename ==
    /\ pc = "rename"
    /\ IF idx > Len(files_to_move)
       THEN /\ printed' = Append(printed, <<"done">>)
            /\ idx' = 1
            /\ Goto(NextPhase("rename"))
            /\ UNCHANGED <<fs, mount_point, log>>
       ELSE LET move == NextMove(idx)
                r == rename(fs, move.path, move.to_path)
            IN  /\ fs' = r.fs
                /\ mount_point' = r.mount
                /\ log' = Append(log,
                       Event(IF r.ok THEN "rename" ELSE "rename_failed", idx,
                             move.path, move.to_path, r.from, r.to,
                             r.replaced, {}))
                /\ UNCHANGED printed
                /\ IF r.ok
                   THEN idx' = idx + 1 /\ UNCHANGED <<pc, result>>
                   ELSE Finish("error") /\ UNCHANGED idx
    /\ UNCHANGED <<fs0, files, absolute_paths, files_to_move,
                   intermediate_directories_to_create, checked>>
    /\ UNCHANGED earlier

Next ==
    \/ Canonicalize
    \/ Classify
    \/ CreateGroupFolder
    \/ CollisionCheck
    \/ Discover
    \/ CreateDirectory
    \/ SameFilesystemCheck
    \/ Rename

Spec == Init /\ [][Next]_vars

\* The orders a list can be given in.
Reorderings(list) ==
    {[n \in 1..Len(list) |-> list[f[n]]] :
        f \in {g \in [1..Len(list) -> 1..Len(list)] :
                  \A i, j \in 1..Len(list) : g[i] = g[j] => i = j}}

\* import is called again on the filesystem and the mounts of the first
\* call, with the same files listed in another order; the outcome of the
\* first call is kept for the comparison.
ImportAgain ==
    /\ pc = "done"
    /\ ~earlier.called
    /\ earlier' = [earlier EXCEPT !.called = TRUE, !.result = result,
                                  !.fs = fs]
    /\ files' \in Reorderings(files) \ {files}
    /\ fs' = fs0
    /\ mount_point' = earlier.mount_point
    /\ absolute_paths' = <<>>
    /\ files_to_move' = <<>>
    /\ intermediate_directories_to_create' = <<>>
    /\ pc' = "canonicalize"
    /\ checked' = {}
    /\ idx' = 1
    /\ result' = "running"
    /\ printed' = <<>>
    /\ log' = <<>>
    /\ UNCHANGED fs0

NextPermuted ==
    \/ Canonicalize
    \/ Classify
    \/ CreateGroupFolder
    \/ CollisionCheck
    \/ Discover
    \/ CreateDirectory
    \/ SameFilesystemCheck
    \/ Rename
    \/ ImportAgain

\* Two calls of import on the same filesystem, the second with the list in
\* another order.
SpecPermuted == Init /\ [][NextPermuted]_vars

TypeOK ==
    /\ pc \in {Phases[n] : n \in 1..Len(Phases)}
    /\ result \in {"running", "ok", "error", "panic"}
    /\ (pc = "done") = (result # "running")
    /\ checked \subseteq {"resolution", "classification", "collision",
                          "obstructed", "same_filesystem"}
    /\ earlier.called \in BOOLEAN
    /\ earlier.result \in {"running", "ok", "error", "panic"}

----------------------------------------------------------------------------
\* Vocabulary of the properties.

Listed == 1..Len(files)

Planned == 1..Len(files_to_move)

\* The canonical path a listed file had when import was called.
CanonicalAtCall(n) == canonicalize(fs0, files[n])

\* The place of the listed entry itself when import was called.
PlaceAtCall(n) == Locate(fs0, files[n])

OutsideBoth(n) ==
    /\ CanonicalAtCall(n) # NoPath
    /\ ~starts_with(CanonicalAtCall(n), dotfiles_folder)
    /\ ~starts_with(CanonicalAtCall(n), home_dir)

InsideDotfiles(n) ==
    /\ CanonicalAtCall(n) # NoPath
    /\ starts_with(CanonicalAtCall(n), dotfiles_folder)

InsideHomeOnly(n) ==
    /\ CanonicalAtCall(n) # NoPath
    /\ ~starts_with(CanonicalAtCall(n), dotfiles_folder)
    /\ starts_with(CanonicalAtCall(n), home_dir)

Events == {log[k] : k \in 1..Len(log)}

RenameEvents == {e \in Events : e.op = "rename"}

RenameAttempts == {e \in Events : e.op \in {"rename", "rename_failed"}}

MkdirEvents == {e \in Events : e.op = "mkdir"}

\* The tree below `to` in g is the tree below `from` in f.
SameTree(f, from, g, to) ==
    /\ from \in DOMAIN f
    /\ to \in DOMAIN g
    /\ \A p \in Subtree(f, from) :
          LET q == join(to, strip_prefix(p, from)) IN
          q \in DOMAIN g /\ g[q] = f[p]
    /\ \A q \in Subtree(g, to) :
          join(from, strip_prefix(q, to)) \in DOMAIN f

----------------------------------------------------------------------------
\* C1: when a listed file's canonical path is outside both the dotfiles
\* folder and the home directory, import ends with an error and the
\* filesystem is never touched: nothing is moved, no directory is created.
C1_OutsideFileNoMutation ==
    (\E n \in Listed : OutsideBoth(n)) =>
        /\ fs = fs0
        /\ log = <<>>
        /\ result \in {"running", "error"}

\* An outside file listed after a file that was planned for a move.
C1_Witness ==
    /\ pc = "done"
    /\ result = "error"
    /\ Len(files) = 2
    /\ OutsideBoth(2)
    /\ InsideHomeOnly(1)
    /\ Len(files_to_move) = 1

\* C2: when an entry exists at the destination of a planned move as import
\* is called, import does not succeed and no rename is executed.
C2_ExistingDestinationAborts ==
    (\E n \in Planned :
        Locate(fs0, files_to_move[n].to_path) \in DOMAIN fs0) =>
        /\ result # "ok"
        /\ RenameEvents = {}

\* C3: after a successful import every listed file of the home directory
\* (outside the dotfiles folder) is gone from its path and is, unchanged, at
\* group_dir joined with its path relative to home_dir.
C3_MovedAndMirrored ==
    result = "ok" =>
        \A n \in Listed : InsideHomeOnly(n) =>
            /\ Locate(fs, files[n]) \notin DOMAIN fs
            /\ SameTree(fs0, PlaceAtCall(n),
                        fs, Locate(fs, Destination(CanonicalAtCall(n))))

\* C4: no rename replaces an entry: when a rename is executed nothing
\* exists at its destination.
C4_NoOverwrite == \A e \in RenameEvents : ~e.replaced

\* What was at `place` when import was called is still there, entry by
\* entry (a directory may have gained entries).
StillThere(place) ==
    \A p \in Subtree(fs0, place) : p \in DOMAIN fs /\ fs[p] = fs0[p]

\* The places of the planned sources when import was called.
SourcePlaces == {Locate(fs0, files_to_move[m].path) : m \in Planned}

UnderMovedSource(place) ==
    \E s \in SourcePlaces : s # place /\ starts_with(place, s)

NeverPlanned(n) == \A m \in Planned : files_to_move[m].path # files[n]

\* C5 as stated: a listed file whose canonical path is inside the dotfiles
\* folder is never planned for a move, and the entry at its path is unchanged
\* when import ends.
C5_SkippedEntryUnchanged ==
    \A n \in Listed : InsideDotfiles(n) =>
        /\ NeverPlanned(n)
        /\ pc = "done" => StillThere(PlaceAtCall(n))

\* C5, amended: a listed file whose canonical path is inside the dotfiles
\* folder is never planned for a move (the dotfiles test comes first), the
\* entry at its canonical path is unchanged at every moment, and so is the
\* listed entry itself unless it lies inside a listed directory that is
\* moved.
C5_SkippedCanonicalUnchanged ==
    \A n \in Listed : InsideDotfiles(n) =>
        /\ NeverPlanned(n)
        /\ StillThere(CanonicalAtCall(n))
        /\ ~UnderMovedSource(PlaceAtCall(n)) => StillThere(PlaceAtCall(n))

\* A successful import that moved a file into a listed directory of the
\* group folder, or moved a directory holding a listed link into the
\* dotfiles folder.
C5_Witness ==
    /\ result = "ok"
    /\ RenameEvents # {}
    /\ \E n \in Listed :
          /\ InsideDotfiles(n)
          /\ \/ \E e \in RenameEvents : starts_with(e.to, CanonicalAtCall(n))
             \/ UnderMovedSource(PlaceAtCall(n))

AllChecks == {"resolution", "classification", "collision", "obstructed",
              "same_filesystem"}

RECURSIVE NearestExisting(_, _)
NearestExisting(f, p) ==
    IF exists(f, p) \/ p = <<>> THEN canonicalize(f, p)
    ELSE NearestExisting(f, Parent(p))

\* The source of planned move n and the parent of its destination are on
\* different filesystems.
CrossFilesystem(n) ==
    LET move == files_to_move[n] IN
    /\ exists(fs, move.path)
    /\ Dev(canonicalize(fs, move.path))
           # Dev(NearestExisting(fs, Parent(move.to_path)))

\* C7: while a planned move is across filesystems and nothing has been
\* moved, import is not in its move loop, attempts no rename and does not
\* succeed: the same-filesystem check of every planned move comes before
\* the first rename.
C7_CrossFilesystemBeforeMoves ==
    (RenameEvents = {} /\ \E n \in Planned : CrossFilesystem(n)) =>
        /\ pc # "rename"
        /\ RenameAttempts = {}
        /\ result # "ok"

\* The second of two planned moves is across filesystems, the first is not;
\* all directories exist and import stopped with an error.
C7_Witness ==
    /\ result = "error"
    /\ Len(files_to_move) = 2
    /\ ~CrossFilesystem(1)
    /\ CrossFilesystem(2)
    /\ AllChecks \ {"same_filesystem"} = checked
    /\ \A n \in Planned : is_dir(fs, Parent(files_to_move[n].to_path))

\* The k-th rename attempted.
Attempt(k) ==
    LET at == {j \in 1..Len(log) :
                  /\ log[j].op \in {"rename", "rename_failed"}
                  /\ Cardinality({i \in 1..j :
                         log[i].op \in {"rename", "rename_failed"}}) = k}
    IN  log[CHOOSE j \in at : TRUE]

\* The listed paths that are planned for a move, in the order listed.
PlannedPaths ==
    SelectSeq(files, LAMBDA p :
        LET c == canonicalize(fs0, p) IN
        c # NoPath /\ ~starts_with(c, dotfiles_folder)
                   /\ starts_with(c, home_dir))

\* The plan is the listed files that are not skipped, in the order listed,
\* and a failed rename is the last thing import did.
C8_PlanAndStop ==
    /\ "classification" \in checked =>
          [m \in Planned |-> files_to_move[m].path] = PlannedPaths
    /\ \A j \in 1..Len(log) : log[j].op = "rename_failed" =>
          j = Len(log) /\ result = "error"

\* An iteration of the move loop attempts the planned move that follows the
\* ones attempted so far; when the rename fails the filesystem stays as the
\* completed moves left it and import returns the error.
C8_MoveStep ==
    (pc = "rename" /\ idx <= Len(files_to_move)) =>
        LET k == Cardinality(RenameAttempts) + 1
            e == log'[Len(log')]
        IN  /\ log' = Append(log, e)
            /\ e.op \in {"rename", "rename_failed"}
            /\ e.path = files_to_move[k].path
            /\ e.to_path = files_to_move[k].to_path
            /\ e.op = "rename_failed" =>
                  fs' = fs /\ result' = "error" /\ pc' = "done"

C8_WitnessStop ==
    /\ result = "error"
    /\ Len(files_to_move) = 2
    /\ Cardinality(RenameAttempts) = 1
    /\ Attempt(1).op = "rename_failed"

InHomeOnly(p) == starts_with(p, home_dir) /\ ~starts_with(p, dotfiles_folder)

AtOrUnderSource(p) == \E s \in SourcePlaces : starts_with(p, s)

\* Nothing of the home directory but the planned sources has changed.
HomeFrame ==
    /\ \A p \in DOMAIN fs0 : (InHomeOnly(p) /\ ~AtOrUnderSource(p)) =>
          p \in DOMAIN fs /\ fs[p] = fs0[p]
    /\ \A p \in DOMAIN fs : InHomeOnly(p) =>
          p \in DOMAIN fs0 /\ fs[p] = fs0[p]

\* What the group folder held is still there.
GroupKept ==
    \A p \in DOMAIN fs0 : starts_with(p, group_dir) =>
        p \in DOMAIN fs /\ fs[p] = fs0[p]

\* C9: after a successful import the entries of the home directory that are
\* neither planned sources nor below one are unchanged (a directory emptied
\* by the moves stays, empty), and every entry the group folder held is
\* still there.
C9_FrameAfterSuccess == result = "ok" => HomeFrame /\ GroupKept

\* The entries below the group folder that were not there, or were
\* something else, when import was called.
NewInGroup ==
    {p \in DOMAIN fs :
        /\ starts_with(p, group_dir)
        /\ p # group_dir
        /\ (p \notin DOMAIN fs0 \/ fs[p] # fs0[p])}

MovedIn(p) == \E e \in RenameEvents : starts_with(p, e.to)

OnTheWay(p) ==
    /\ fs[p] = Dir
    /\ \E m \in Planned :
          /\ starts_with(files_to_move[m].to_path, p)
          /\ files_to_move[m].to_path # p

Children(f, dir) == {p \in DOMAIN f : p # <<>> /\ Parent(p) = dir}

\* C10 as stated: after a successful import the new entries below the group
\* folder are the moved entries, with what they hold, and the directories on
\* the way to a planned destination; a destination's parent that did not
\* exist is a directory and holds moved entries only.
C10_ExactlyMovedEntries ==
    result = "ok" =>
        /\ \A p \in NewInGroup : MovedIn(p) \/ OnTheWay(p)
        /\ \A m \in Planned :
              LET parent_directory == Parent(files_to_move[m].to_path) IN
              ~exists(fs0, parent_directory) =>
                  /\ is_dir(fs, parent_directory)
                  /\ \A q \in Children(fs, canonicalize(fs, parent_directory)) :
                        \E e \in RenameEvents : e.to = q

\* C10, amended: after a successful import the new entries below the group
\* folder are the moved entries, with what they hold, and the directories on
\* the way to a planned destination; a destination's parent that did not
\* exist is a directory and holds moved entries and directories on the way
\* to another planned destination, nothing else.
C10_NothingExtraneous ==
    result = "ok" =>
        /\ \A p \in NewInGroup : MovedIn(p) \/ OnTheWay(p)
        /\ \A m \in Planned :
              LET parent_directory == Parent(files_to_move[m].to_path) IN
              ~exists(fs0, parent_directory) =>
                  /\ is_dir(fs, parent_directory)
                  /\ \A q \in Children(fs, canonicalize(fs, parent_directory)) :
                        \/ \E e \in RenameEvents : e.to = q
                        \/ OnTheWay(q)

\* A successful import that created the group folder and an intermediate
\* directory in it, and moved one entry into each.
C10_Witness ==
    /\ result = "ok"
    /\ ~exists(fs0, group_dir)
    /\ \E e \in MkdirEvents : e.n > 0
    /\ \E e \in RenameEvents : Len(e.to) > Len(group_dir) + 1
    /\ \E e \in RenameEvents : Len(e.to) = Len(group_dir) + 1

----------------------------------------------------------------------------
\* The words of a message that was printed.
Printed == {printed[k] : k \in 1..Len(printed)}

\* C11: when a listed path cannot be canonicalized import returns the I/O
\* error of the resolution: no file is classified (nothing is planned,
\* skipped or warned about) and the filesystem is never touched.
C11_UnresolvedPathFailsFirst ==
    (\E n \in Listed : CanonicalAtCall(n) = NoPath) =>
        /\ pc \in {"canonicalize", "done"}
        /\ result \in {"running", "error"}
        /\ checked = {}
        /\ files_to_move = <<>>
        /\ printed = <<>>
        /\ fs = fs0
        /\ log = <<>>

\* An unresolvable path listed after a file of the home directory.
C11_Witness ==
    /\ pc = "done"
    /\ result = "error"
    /\ Len(files) = 2
    /\ InsideHomeOnly(1)
    /\ CanonicalAtCall(2) = NoPath

----------------------------------------------------------------------------
\* import has returned after classifying every listed file as skipped.
EmptyPlanDone ==
    /\ pc = "done"
    /\ "classification" \in checked
    /\ files_to_move = <<>>

\* Nothing but the group folder was created and nothing was changed.
OnlyGroupFolderMade ==
    /\ \A e \in Events : e.op = "mkdir" /\ e.n = 0
    /\ \A p \in DOMAIN fs0 : p \in DOMAIN fs /\ fs[p] = fs0[p]
    /\ \A p \in DOMAIN fs \ DOMAIN fs0 : p = group_dir /\ fs[p] = Dir

\* C12 as stated: when every listed file is skipped import reports that there
\* is nothing to move, creates the group folder, changes nothing else and
\* returns success.
C12_EmptyPlanSucceeds ==
    EmptyPlanDone =>
        /\ <<"no_files">> \in Printed
        /\ OnlyGroupFolderMade
        /\ is_dir(fs, group_dir)
        /\ result = "ok"

\* C12, amended: when every listed file is skipped import reports that there
\* is nothing to move and attempts the creation of the group folder, its
\* only mutation; it returns success when the group folder is then a
\* directory, and the I/O error of the creation, with the filesystem as it
\* was, when it is not.
C12_EmptyPlanOnlyGroupFolder ==
    EmptyPlanDone =>
        /\ <<"no_files">> \in Printed
        /\ OnlyGroupFolderMade
        /\ IF is_dir(fs, group_dir) THEN result = "ok"
           ELSE result = "error" /\ fs = fs0

\* Every listed file was skipped, the group folder was missing and has been
\* created.
C12_Witness ==
    /\ EmptyPlanDone
    /\ Len(files) = 2
    /\ result = "ok"
    /\ ~exists(fs0, group_dir)
    /\ fs[group_dir] = Dir
    /\ \E e \in MkdirEvents : e.n = 0

----------------------------------------------------------------------------
\* C13: when the creation of the intermediate directories has completed
\* without error, the parent of every planned destination is a directory.
C13_ParentsExistAfterCreation ==
    (pc = "same_filesystem" /\ result = "running") =>
        \A m \in Planned : is_dir(fs, Parent(files_to_move[m].to_path))

----------------------------------------------------------------------------
\* No symbolic link in the filesystem import was called on.
NoLinksAtCall == \A p \in DOMAIN fs0 : fs0[p].kind # "link"

\* C14: when every check before the moves has passed, every rename succeeds
\* and import returns success; stated for the filesystems without symbolic
\* links, where a rename can only fail because of the moves before it.
C14_ChecksPassedThenSuccess ==
    (pc = "done" /\ checked = AllChecks /\ NoLinksAtCall) =>
        /\ result = "ok"
        /\ \A e \in RenameAttempts : e.op = "rename"

----------------------------------------------------------------------------
\* Something that is not a directory was at path q when import was called.
OccupiedByNonDirectory(q) ==
    LET at == Locate(fs0, q) IN at \in DOMAIN fs0 /\ ~is_dir(fs0, q)

\* The paths below the group folder a planned destination lies under.
SlotPaths ==
    UNION { { SubSeq(files_to_move[m].to_path, 1, k) :
                k \in (Len(group_dir) + 1)..(Len(files_to_move[m].to_path) - 1) } :
            m \in Planned }

\* C15 as stated: when a non-directory occupies a path a planned destination
\* needs as a directory, import ends in the panic of the obstructed slot,
\* with no intermediate directory created and no move made.
C15_ObstructedSlotPanics ==
    ("classification" \in checked /\ pc = "done"
         /\ \E q \in SlotPaths : OccupiedByNonDirectory(q)) =>
        /\ result = "panic"
        /\ "collision" \in checked
        /\ \A e \in Events : e.op = "mkdir" /\ e.n = 0

\* The parent of a planned destination resolved to something that is not a
\* directory when import was called.
ParentIsNonDirectory ==
    \E m \in Planned :
        LET parent_directory == Parent(files_to_move[m].to_path) IN
        exists(fs0, parent_directory) /\ ~is_dir(fs0, parent_directory)

\* C15, amended: when a non-directory occupies a path a planned destination
\* needs as a directory, import does not succeed and attempts no move; when
\* the collision check has passed and the occupied path is the parent of a
\* destination and resolves to an existing non-directory, import ends in the
\* panic of the obstructed slot with no intermediate directory created.
C15_ObstructedSlotAborts ==
    ("classification" \in checked /\ pc = "done"
         /\ \E q \in SlotPaths : OccupiedByNonDirectory(q)) =>
        /\ result \in {"panic", "error"}
        /\ RenameAttempts = {}
        /\ ("collision" \in checked /\ ParentIsNonDirectory) =>
              /\ result = "panic"
              /\ "obstructed" \notin checked
              /\ \A e \in Events : e.op = "mkdir" /\ e.n = 0

\* A regular file at the parent of a planned destination stopped import
\* with the panic of the obstructed slot.
C15_Witness ==
    /\ pc = "done"
    /\ result = "panic"
    /\ "collision" \in checked
    /\ ParentIsNonDirectory
    /\ \E q \in SlotPaths : q \in DOMAIN fs0 /\ fs0[q].kind = "file"

\* A regular file two levels above a planned destination stopped import with
\* the I/O error of the directory creation.
C15_WitnessAncestor ==
    /\ pc = "done"
    /\ result = "error"
    /\ "obstructed" \in checked
    /\ \E m \in Planned : \E q \in SlotPaths :
          /\ q \in DOMAIN fs0
          /\ fs0[q].kind = "file"
          /\ q = Parent(Parent(files_to_move[m].to_path))

----------------------------------------------------------------------------
\* mkdir cannot make directory d, nor the directories above it: something
\* that is not a directory is in the way.
CannotCreate(f, d) ==
    \E k \in 1..Len(d) :
        LET q == SubSeq(d, 1, k) IN
        Locate(f, q) \in DOMAIN f /\ ~is_dir(f, q)

\* The step of import that is about to create a directory that cannot be
\* created.
CreationFails ==
    \/ pc = "create_group" /\ CannotCreate(fs, group_dir)
    \/ /\ pc = "create_directories"
       /\ idx <= Len(intermediate_directories_to_create)
       /\ CannotCreate(fs, intermediate_directories_to_create[idx])

\* The directories import created are on disk as long as nothing was moved.
C16_CreatedRemain ==
    RenameAttempts = {} =>
        \A e \in MkdirEvents : \A d \in e.made : d \in DOMAIN fs /\ fs[d] = Dir

\* A failed creation is the last step of import: it returns the I/O error
\* and leaves the filesystem, with the directories created so far, as it is;
\* no step follows the return.
C16_CreationStep ==
    /\ pc # "done"
    /\ CreationFails =>
          /\ pc' = "done"
          /\ result' = "error"
          /\ fs' = fs
          /\ log' = log
          /\ "same_filesystem" \notin checked'
          /\ RenameAttempts = {}

\* C16: when the creation of the group folder or of an intermediate
\* directory fails import returns an I/O error; no later directory is
\* created, no same-filesystem check and no move is made, and the
\* directories created before the failure remain.
C16_CreationFailureStops == []C16_CreatedRemain /\ [][C16_CreationStep]_vars

\* The second intermediate directory could not be created after the first
\* one was; the first is on disk.
C16_Witness ==
    /\ pc = "done"
    /\ result = "error"
    /\ idx = 2
    /\ Len(intermediate_directories_to_create) = 2
    /\ CannotCreate(fs, intermediate_directories_to_create[2])
    /\ \E e \in MkdirEvents :
          /\ e.n = 1
          /\ \E d \in e.made : d \in DOMAIN fs /\ fs[d] = Dir

\* The group folder could not be created.
C16_WitnessGroupFolder ==
    /\ pc = "done"
    /\ result = "error"
    /\ "classification" \in checked
    /\ "collision" \notin checked
    /\ files_to_move # <<>>
    /\ CannotCreate(fs, group_dir)

----------------------------------------------------------------------------
\* The regular files the home directory and the dotfiles folder held when
\* import was called.
FilesAtCall ==
    {p \in DOMAIN fs0 :
        /\ fs0[p].kind = "file"
        /\ starts_with(p, home_dir) \/ starts_with(p, dotfiles_folder)}

\* Where the content of the file that was at p is now.
PlacesNow(p) == {q \in DOMAIN fs : fs[q] = fs0[p]}

\* q is the place a planned destination names, or lies below it.
AtOrUnderDestination(q) ==
    \E m \in Planned : starts_with(q, Locate(fs, files_to_move[m].to_path))

\* C17: when import has returned, every regular file of the home directory
\* and of the dotfiles folder is still on disk, in one place: where it was,
\* or at or below a planned destination.
C17_NoContentLost ==
    pc = "done" =>
        \A p \in FilesAtCall :
            /\ Cardinality(PlacesNow(p)) = 1
            /\ \A q \in PlacesNow(p) : q = p \/ AtOrUnderDestination(q)

----------------------------------------------------------------------------
\* C18: no two planned moves have the same destination, and no planned
\* destination lies above another one.
C18_DestinationsDisjoint ==
    \A m1, m2 \in Planned :
        m1 # m2 => ~starts_with(files_to_move[m2].to_path,
                                files_to_move[m1].to_path)

----------------------------------------------------------------------------
\* Both calls have returned.
BothCallsDone == earlier.called /\ pc = "done"

\* C19: import called on the same filesystem with the same files in another
\* order ends the same way, success or failure, and when both calls succeed
\* they leave the same filesystem.
C19_OrderIndependent ==
    BothCallsDone =>
        /\ (result = "ok") = (earlier.result = "ok")
        /\ (result = "ok" /\ earlier.result = "ok") => fs = earlier.fs

============================================================================
